---- MODULE Spec2Model ----
(***************************************************************************)
(* A model of CacheManager (src/src/cache/cache-manager.ts): the token     *)
(* cache in front of a pluggable key/value backend.                        *)
(*                                                                         *)
(* Strings are sequences of atoms: ":" and " " are the two characters the  *)
(* key format gives a meaning to, every other atom is a run of ordinary    *)
(* characters.  A record of the backend is a TLA+ record; "nothing" (JS    *)
(* undefined) is the record Nothing, and the undefined string is Undefined.*)
(*                                                                         *)
(* An async method is cut at its awaits.  A backend call takes effect in   *)
(* the step that issues it; the step named after a line resumes the method *)
(* after the await on that line.  The last backend call of a method and    *)
(* the method's return are one step, since nothing follows the call but    *)
(* the return.  A finished call stays in pc "done", with its locals and    *)
(* its result, until Return hands the result to the caller.                *)
(*                                                                         *)
(* Spec has one caller making its calls one at a time.  SpecTwo has two    *)
(* managers with different client ids over one backend, SpecGetSet a get   *)
(* and a set in flight together, SpecSetClear a set and a clear in flight  *)
(* together.  SpecMatch and SpecKey apply matchExistingCacheKey and the    *)
(* key format to inputs drawn from pools.                                  *)
(***************************************************************************)
EXTENDS Integers, Sequences, FiniteSets, Bags, TLC

VARIABLES
  native,    \* the backend exposes allKeys (constructor, line 19)
  byRef,     \* the backend's get hands out the stored object itself, not a copy
  store,     \* the backend: key string -> stored record
  pending,   \* the removals clear() has issued and the backend has not carried out (a bag of keys)
  now,       \* Math.floor(Date.now() / 1000)
  call,      \* per caller: the call in flight, its position and its locals
  lastSet,   \* history: the entry of the latest set, while nothing but that set and
             \*   the get after it has taken a step since it was called
  probe      \* the inputs and the result of a pure function under test

vars == <<native, byRef, store, pending, now, call, lastSet, probe>>

----------------------------------------------------------------------------
(* Bounds *)

MaxTime == 2
MaxPending == 2

----------------------------------------------------------------------------
(* Values *)

DEFAULT_EXPIRY_ADJUSTMENT_SECONDS == 0

Nothing == [nothing |-> TRUE]
Undefined == <<"?undefined">>
Truthy(s) == s # Undefined /\ s # <<>>

CACHE_KEY_PREFIX == <<"@@auth0spajs@@">>
DELIM == <<":", ":">>
SPACE == <<" ">>

RECURSIVE SplitFrom(_, _, _)
SplitFrom(s, d, cur) ==
  IF s = <<>> THEN <<cur>>
  ELSE IF Len(s) >= Len(d) /\ SubSeq(s, 1, Len(d)) = d
       THEN <<cur>> \o SplitFrom(SubSeq(s, Len(d) + 1, Len(s)), d, <<>>)
       ELSE SplitFrom(Tail(s), d, Append(cur, Head(s)))

\* a split at every occurrence of the first character of d
SplitOnFirstChar(s, d) == SplitFrom(s, <<Head(d)>>, <<>>)

\* String.prototype.split(d)
Split(s, d) == SplitFrom(s, d, <<>>)

ToSet(q) == {q[i] : i \in DOMAIN q}

\* every ordering of a finite set
Orderings(S) ==
  {q \in [1..Cardinality(S) -> S] : \A i, j \in DOMAIN q : i # j => q[i] # q[j]}

----------------------------------------------------------------------------
(* Cache keys (CacheKey of ./shared) *)

CacheKey(client_id, scope, audience) ==
  [prefix |-> CACHE_KEY_PREFIX, client_id |-> client_id,
   audience |-> audience, scope |-> scope]

\* prefix::client_id::audience::scope
toKey(k) == k.prefix \o DELIM \o k.client_id \o DELIM \o k.audience \o DELIM \o k.scope

\* the four fields of a key string; an absent client_id or audience is
\* undefined, an absent scope is the empty string
fromKey(key) ==
  LET parts == Split(key, DELIM)
  IN [prefix    |-> parts[1],
      client_id |-> IF Len(parts) >= 2 THEN parts[2] ELSE Undefined,
      audience  |-> IF Len(parts) >= 3 THEN parts[3] ELSE Undefined,
      scope     |-> IF Len(parts) >= 4 THEN parts[4] ELSE <<>>]

----------------------------------------------------------------------------
(* The storage backend (ICache of ./shared): get, set, remove on a store *)

CacheGet(s, key) == IF key \in DOMAIN s THEN s[key] ELSE Nothing
CacheSet(s, key, rec) == [k \in DOMAIN s \cup {key} |-> IF k = key THEN rec ELSE s[k]]
CacheRemove(s, key) == [k \in DOMAIN s \ {key} |-> s[k]]

----------------------------------------------------------------------------
(* The key manifest (CacheKeyManifest of ./key-manifest): one record, under *)
(* a key namespaced by the client id, holding the keys in insertion order   *)

ClientId == <<"c1">>
ManifestKey(clientId) == CACHE_KEY_PREFIX \o DELIM \o clientId

ManifestGet(s, clientId) == CacheGet(s, ManifestKey(clientId))
ManifestKeys(s, clientId) ==
  IF ManifestKey(clientId) \in DOMAIN s THEN s[ManifestKey(clientId)].keys ELSE <<>>
ManifestAdd(s, clientId, key) ==
  CacheSet(s, ManifestKey(clientId),
           [keys |-> IF key \in ToSet(ManifestKeys(s, clientId)) THEN ManifestKeys(s, clientId)
                     ELSE Append(ManifestKeys(s, clientId), key)])
ManifestRemove(s, clientId, key) ==
  IF ManifestKey(clientId) \in DOMAIN s
  THEN CacheSet(s, ManifestKey(clientId),
                [keys |-> SelectSeq(ManifestKeys(s, clientId), LAMBDA k : k # key)])
  ELSE s
ManifestClear(s, clientId) == CacheRemove(s, ManifestKey(clientId))

----------------------------------------------------------------------------
(* CacheManager: the pure parts *)

\* the filter predicate with one requested scope sufficing (some for every)
KeyMatchesSomeScope(keyToMatch, key) ==
  LET cacheKey == fromKey(key)
      scopeSet == IF Truthy(cacheKey.scope) THEN ToSet(Split(cacheKey.scope, SPACE)) ELSE {}
      scopesToMatch == Split(keyToMatch.scope, SPACE)
  IN /\ cacheKey.prefix = CACHE_KEY_PREFIX
     /\ cacheKey.client_id = keyToMatch.client_id
     /\ cacheKey.audience = keyToMatch.audience
     /\ \E i \in DOMAIN scopesToMatch : scopesToMatch[i] \in scopeSet

\* the filter predicate of matchExistingCacheKey (lines 176-194)
KeyMatches(keyToMatch, key) ==
  LET cacheKey == fromKey(key)
      scopeSet == IF Truthy(cacheKey.scope) THEN ToSet(Split(cacheKey.scope, SPACE)) ELSE {}
      scopesToMatch == Split(keyToMatch.scope, SPACE)
      hasAllScopes ==
        /\ Truthy(cacheKey.scope)
        /\ \A i \in DOMAIN scopesToMatch : scopesToMatch[i] \in scopeSet
  IN /\ cacheKey.prefix = CACHE_KEY_PREFIX
     /\ cacheKey.client_id = keyToMatch.client_id
     /\ cacheKey.audience = keyToMatch.audience
     /\ hasAllScopes

\* allKeys.filter(...) read at its last element
matchExistingCacheKeyLast(keyToMatch, allKeys) ==
  LET hits == SelectSeq(allKeys, LAMBDA key : KeyMatches(keyToMatch, key))
  IN IF hits = <<>> THEN Undefined ELSE hits[Len(hits)]

\* allKeys.filter(...)[0]: the first key that matches, undefined when none does
matchExistingCacheKey(keyToMatch, allKeys) ==
  LET hits == SelectSeq(allKeys, LAMBDA key : KeyMatches(keyToMatch, key))
  IN IF hits = <<>> THEN Undefined ELSE hits[1]

Min(a, b) == IF a <= b THEN a ELSE b

\* wrapCacheEntry with Math.max for Math.min
wrapCacheEntryMax(entry, nowSeconds) ==
  LET expiresInTime == nowSeconds + entry.expires_in
  IN [body |-> entry,
      expiresAt |-> IF expiresInTime >= entry.decodedToken.claims.exp
                    THEN expiresInTime ELSE entry.decodedToken.claims.exp]

\* wrapCacheEntry (lines 138-154), at the time nowSeconds
wrapCacheEntry(entry, nowSeconds) ==
  LET expiresInTime == nowSeconds + entry.expires_in
      expirySeconds == Min(expiresInTime, entry.decodedToken.claims.exp)
  IN [body |-> entry, expiresAt |-> expirySeconds]

\* the expiry test without the adjustment
ExpiredNoAdjustment(wrappedEntry, expiryAdjustmentSeconds, nowSeconds) ==
  wrappedEntry.expiresAt < nowSeconds

\* the expiry test with the comparison turned round
ExpiredFlipped(wrappedEntry, expiryAdjustmentSeconds, nowSeconds) ==
  wrappedEntry.expiresAt - expiryAdjustmentSeconds > nowSeconds

\* the expiry test with equality counted as expired
ExpiredAtEquality(wrappedEntry, expiryAdjustmentSeconds, nowSeconds) ==
  wrappedEntry.expiresAt - expiryAdjustmentSeconds <= nowSeconds

\* the expiry test of get (line 67)
Expired(wrappedEntry, expiryAdjustmentSeconds, nowSeconds) ==
  wrappedEntry.expiresAt - expiryAdjustmentSeconds < nowSeconds

\* the narrowing left out: the entry is written back as it was read
NotNarrowed(wrappedEntry) == wrappedEntry

\* the narrowing of get (lines 70-72)
Narrowed(wrappedEntry) ==
  [body |-> [refresh_token |-> wrappedEntry.body.refresh_token],
   expiresAt |-> wrappedEntry.expiresAt]

\* Line 70 assigns to the object get was handed.  A backend that hands out
\* the stored object itself sees the assignment in the record under foundKey,
\* as long as that record is still the object that was read.
NarrowInPlace(s, foundKey, wrappedEntry) ==
  IF byRef /\ foundKey \in DOMAIN s /\ s[foundKey] = wrappedEntry
  THEN [s EXCEPT ![foundKey] = Narrowed(wrappedEntry)]
  ELSE s

\* The constructor (lines 16-22): a manifest is kept exactly when the backend
\* has no allKeys of its own.
keyManifestAlways == TRUE

keyManifest == ~native

\* The results getCacheKeys (lines 156-161) can have on store s: the manifest
\* record (undefined when there is none), or the backend's own key list, in
\* an order the backend chooses.
getCacheKeys(s, clientId) ==
  IF keyManifest THEN {ManifestGet(s, clientId)}
  ELSE {[keys |-> q] : q \in Orderings(DOMAIN s)}

----------------------------------------------------------------------------
(* The callers, and what they may pass *)

\* The callers are numbered; caller OtherCaller calls into a second manager,
\* constructed with another client id over the same backend.
Procs == DOMAIN call
OtherCaller == 3
OtherClientId == <<"c2">>
ManagerOfShared(p) == ClientId

ManagerOf(p) == IF p = OtherCaller THEN OtherClientId ELSE ClientId

AUD == <<"x">>
StoredScopes == {<<"a">>, <<"a", " ", "b">>}
RequestScopes == StoredScopes \cup {<<"b">>}
RequestAudiences == {AUD}
RefreshTokens == {Undefined, <<>>, <<"r1">>}
ExpiresIns == {1}
Exps == {2}
Adjustments == {DEFAULT_EXPIRY_ADJUSTMENT_SECONDS, 1}

Entries ==
  [client_id : {ClientId}, audience : {AUD}, scope : StoredScopes,
   expires_in : ExpiresIns, decodedToken : {[claims |-> [exp |-> e]] : e \in Exps},
   refresh_token : RefreshTokens]

RequestKeys ==
  {CacheKey(ClientId, sc, au) : sc \in RequestScopes, au \in RequestAudiences}

NoKey == CacheKey(Undefined, Undefined, Undefined)

Idle ==
  [pc |-> "idle", op |-> "none", cacheKey |-> NoKey,
   expiryAdjustmentSeconds |-> DEFAULT_EXPIRY_ADJUSTMENT_SECONDS,
   entry |-> Nothing, wrappedEntry |-> Nothing, keys |-> Nothing,
   matchedKey |-> Undefined, nowSeconds |-> 0,
   found |-> Nothing, foundKey |-> Undefined, log |-> <<>>, ret |-> Nothing,
   alone |-> TRUE, settled |-> TRUE]

\* found, foundKey, log, alone and settled are history: the record get went
\* on with and the key it was read by, the backend and manifest calls the call
\* has issued, and whether no other call has been in flight during the
\* call (alone) and whether it was made with no removal outstanding (settled).
Op(name, key) == [op |-> name, key |-> key]

\* the calls c with the one caller p has just made: every call that is in
\* flight has the new one for company
Joined(p, c) ==
  [q \in DOMAIN c |->
     IF q # p /\ c[q].pc \notin {"idle", "done"} THEN [c[q] EXCEPT !.alone = FALSE] ELSE c[q]]

\* the locals of caller p as its call begins
Called(p) ==
  [Idle EXCEPT !.alone = \A q \in Procs \ {p} : call[q].pc \in {"idle", "done"},
               !.settled = pending = EmptyBag]

----------------------------------------------------------------------------
(* The state machine *)

NoProbe == [applied |-> FALSE]

Init ==
  /\ native \in BOOLEAN
  /\ byRef \in BOOLEAN
  /\ store = <<>>
  /\ pending = EmptyBag
  /\ now = 0
  /\ call = [p \in {1} |-> Idle]
  /\ lastSet = Nothing
  /\ probe = NoProbe

\* the clock moves
Tick ==
  /\ now < MaxTime
  /\ now' = now + 1
  /\ lastSet' = Nothing
  /\ UNCHANGED <<native, byRef, store, pending, call, probe>>

\* the backend carries out one of the removals issued by clear
CompleteRemoval ==
  /\ \E key \in BagToSet(pending) :
       /\ store' = CacheRemove(store, key)
       /\ pending' = pending (-) SetToBag({key})
  /\ lastSet' = Nothing
  /\ UNCHANGED <<native, byRef, now, call, probe>>

\* get, lines 60-89: the expiry decision on the record wrappedEntry, read by foundKey
ExpiryDecision(p, wrappedEntry, foundKey) ==
  LET c == [call[p] EXCEPT !.found = wrappedEntry, !.foundKey = foundKey,
                           !.nowSeconds = now]
      key == toKey(c.cacheKey)
  IN IF Expired(wrappedEntry, c.expiryAdjustmentSeconds, now)
     THEN IF Truthy(wrappedEntry.body.refresh_token)
          THEN /\ store' = CacheSet(NarrowInPlace(store, foundKey, wrappedEntry),
                                    key, Narrowed(wrappedEntry))
               /\ call' = [call EXCEPT ![p] =
                    [c EXCEPT !.wrappedEntry = Narrowed(wrappedEntry),
                              !.log = Append(@, Op("set", key)),
                              !.ret = Narrowed(wrappedEntry).body,
                              !.pc = "done"]]
          ELSE /\ store' = CacheRemove(store, key)
               /\ call' = [call EXCEPT ![p] =
                    [c EXCEPT !.log = Append(@, Op("remove", key)),
                              !.ret = Nothing,
                              !.pc = IF keyManifest THEN "get79" ELSE "done"]]
     ELSE /\ store' = store
          /\ call' = [call EXCEPT ![p] = [c EXCEPT !.ret = wrappedEntry.body, !.pc = "done"]]

\* get is called: line 28 reads the exact key
GetCalled(p, requestKeys, adjustments) ==
  /\ call[p].pc = "idle"
  /\ \E cacheKey \in requestKeys, expiryAdjustmentSeconds \in adjustments :
       call' = Joined(p, [call EXCEPT ![p] =
         [Called(p) EXCEPT !.pc = "get28", !.op = "get", !.cacheKey = cacheKey,
                           !.expiryAdjustmentSeconds = expiryAdjustmentSeconds,
                           !.wrappedEntry = CacheGet(store, toKey(cacheKey)),
                           !.log = <<Op("get", toKey(cacheKey))>>]])
  /\ UNCHANGED <<native, byRef, store, pending, now, lastSet, probe>>

GetStart(p) == GetCalled(p, RequestKeys, Adjustments)

\* Get28 with the exact key read again before the expiry decision
Get28Rereads(p) ==
  /\ call[p].pc = "get28"
  /\ IF call[p].wrappedEntry # Nothing
     THEN IF CacheGet(store, toKey(call[p].cacheKey)) # Nothing
          THEN ExpiryDecision(p, CacheGet(store, toKey(call[p].cacheKey)),
                              toKey(call[p].cacheKey))
          ELSE ExpiryDecision(p, call[p].wrappedEntry, toKey(call[p].cacheKey))
     ELSE /\ \E keys \in getCacheKeys(store, ManagerOf(p)) :
               call' = [call EXCEPT ![p].keys = keys, ![p].pc = "get40",
                          ![p].log = Append(@, Op(IF keyManifest THEN "manifest.get" ELSE "allKeys",
                                                  Undefined))]
          /\ store' = store
  /\ UNCHANGED <<native, byRef, pending, now, lastSet, probe>>

\* after line 28: on a hit the expiry decision, on a miss the key enumeration of line 40
Get28(p) ==
  /\ call[p].pc = "get28"
  /\ IF call[p].wrappedEntry # Nothing
     THEN ExpiryDecision(p, call[p].wrappedEntry, toKey(call[p].cacheKey))
     ELSE /\ \E keys \in getCacheKeys(store, ManagerOf(p)) :
               call' = [call EXCEPT ![p].keys = keys, ![p].pc = "get40",
                          ![p].log = Append(@, Op(IF keyManifest THEN "manifest.get" ELSE "allKeys",
                                                  Undefined))]
          /\ store' = store
  /\ UNCHANGED <<native, byRef, pending, now, lastSet, probe>>

\* after line 40: no keys, no result; otherwise match and read the matched key (line 49)
Get40(p) ==
  /\ call[p].pc = "get40"
  /\ IF call[p].keys = Nothing
     THEN call' = [call EXCEPT ![p].ret = Nothing, ![p].pc = "done"]
     ELSE LET matchedKey == matchExistingCacheKey(call[p].cacheKey, call[p].keys.keys)
          IN call' = [call EXCEPT ![p].matchedKey = matchedKey,
                        ![p].wrappedEntry = CacheGet(store, matchedKey),
                        ![p].log = Append(@, Op("get", matchedKey)),
                        ![p].pc = "get49"]
  /\ UNCHANGED <<native, byRef, store, pending, now, lastSet, probe>>

\* Get49 with a matched key that has no record dropped from the manifest
Get49DropsDanglingKey(p) ==
  /\ call[p].pc = "get49"
  /\ IF call[p].wrappedEntry = Nothing
     THEN /\ call' = [call EXCEPT ![p].ret = Nothing, ![p].pc = "done"]
          /\ store' = IF ~keyManifest THEN store
                      ELSE ManifestRemove(store, ManagerOf(p), call[p].matchedKey)
     ELSE ExpiryDecision(p, call[p].wrappedEntry, call[p].matchedKey)
  /\ UNCHANGED <<native, byRef, pending, now, lastSet, probe>>

\* after line 49: still no entry, no result (line 56); otherwise the expiry decision
Get49(p) ==
  /\ call[p].pc = "get49"
  /\ IF call[p].wrappedEntry = Nothing
     THEN /\ call' = [call EXCEPT ![p].ret = Nothing, ![p].pc = "done"]
          /\ store' = store
     ELSE ExpiryDecision(p, call[p].wrappedEntry, call[p].matchedKey)
  /\ UNCHANGED <<native, byRef, pending, now, lastSet, probe>>

\* after line 79: the manifest forgets the requested key (line 84)
Get79(p) ==
  /\ call[p].pc = "get79"
  /\ store' = ManifestRemove(store, ManagerOf(p), toKey(call[p].cacheKey))
  /\ call' = [call EXCEPT ![p].pc = "done",
                ![p].log = Append(@, Op("manifest.remove", toKey(call[p].cacheKey)))]
  /\ UNCHANGED <<native, byRef, pending, now, lastSet, probe>>

\* set is called: lines 93-105 derive the key, wrap the entry and store it
SetCalled(p, entries) ==
  /\ call[p].pc = "idle"
  /\ \E entry \in entries :
       LET cacheKey == CacheKey(entry.client_id, entry.scope, entry.audience)
           wrappedEntry == wrapCacheEntry(entry, now)
       IN /\ store' = CacheSet(store, toKey(cacheKey), wrappedEntry)
          /\ call' = Joined(p, [call EXCEPT ![p] =
               [Called(p) EXCEPT !.pc = IF keyManifest THEN "set105" ELSE "done",
                                 !.op = "set", !.cacheKey = cacheKey, !.entry = entry,
                                 !.wrappedEntry = wrappedEntry, !.nowSeconds = now,
                                 !.log = <<Op("set", toKey(cacheKey))>>]])
          /\ lastSet' = entry
  /\ UNCHANGED <<native, byRef, pending, now, probe>>

SetStart(p) == SetCalled(p, Entries)

\* Set105 without the manifest's add
Set105SkipsManifest(p) ==
  /\ call[p].pc = "set105"
  /\ call' = [call EXCEPT ![p].pc = "done"]
  /\ UNCHANGED <<native, byRef, store, pending, now, lastSet, probe>>

\* after line 105: the manifest learns the key (line 106)
Set105(p) ==
  /\ call[p].pc = "set105"
  /\ store' = ManifestAdd(store, ManagerOf(p), toKey(call[p].cacheKey))
  /\ call' = [call EXCEPT ![p].pc = "done",
                ![p].log = Append(@, Op("manifest.add", toKey(call[p].cacheKey)))]
  /\ UNCHANGED <<native, byRef, pending, now, lastSet, probe>>

\* clear is called: line 110 enumerates the keys
ClearStart(p) ==
  /\ call[p].pc = "idle"
  /\ \E keys \in getCacheKeys(store, ManagerOf(p)) :
       call' = Joined(p, [call EXCEPT ![p] =
         [Called(p) EXCEPT !.pc = "clear110", !.op = "clear", !.keys = keys,
                           !.log = <<Op(IF keyManifest THEN "manifest.get" ELSE "allKeys",
                                        Undefined)>>]])
  /\ lastSet' = Nothing
  /\ UNCHANGED <<native, byRef, store, pending, now, probe>>

\* Clear110 with no removal issued
Clear110SkipsRemovals(p) ==
  /\ call[p].pc = "clear110"
  /\ call' = [call EXCEPT ![p].pc = IF call[p].keys = Nothing \/ ~keyManifest
                                    THEN "done" ELSE "clear121"]
  /\ UNCHANGED <<native, byRef, store, pending, now, lastSet, probe>>

\* after line 110: no keys, return (line 115); otherwise a removal is issued
\* for every key (lines 117-119), none of them awaited
Clear110(p) ==
  /\ call[p].pc = "clear110"
  /\ IF call[p].keys = Nothing
     THEN /\ call' = [call EXCEPT ![p].pc = "done"]
          /\ pending' = pending
     ELSE LET keys == call[p].keys.keys
          IN /\ BagCardinality(pending) + Len(keys) <= MaxPending
             /\ pending' = pending (+) SetToBag(ToSet(keys))
             /\ call' = [call EXCEPT ![p].pc = IF keyManifest THEN "clear121" ELSE "done",
                           ![p].log = @ \o [i \in DOMAIN keys |-> Op("remove", keys[i])]]
  /\ UNCHANGED <<native, byRef, store, now, lastSet, probe>>

\* Clear121 with the removals awaited first
Clear121AwaitsRemovals(p) ==
  /\ call[p].pc = "clear121"
  /\ pending = EmptyBag
  /\ store' = ManifestClear(store, ManagerOf(p))
  /\ call' = [call EXCEPT ![p].pc = "done",
                ![p].log = Append(@, Op("manifest.clear", Undefined))]
  /\ UNCHANGED <<native, byRef, pending, now, lastSet, probe>>

\* line 121: the manifest record is removed, and clear resolves
Clear121(p) ==
  /\ call[p].pc = "clear121"
  /\ store' = ManifestClear(store, ManagerOf(p))
  /\ call' = [call EXCEPT ![p].pc = "done",
                ![p].log = Append(@, Op("manifest.clear", Undefined))]
  /\ UNCHANGED <<native, byRef, pending, now, lastSet, probe>>

\* clearSync, lines 127-136: allKeys is called on the backend itself, and a
\* removal is called for every key.  The method is for the synchronous
\* backends, where each removal has happened when its call returns; on a
\* backend without allKeys line 128 throws and nothing is removed.
TypeError == [error |-> "TypeError"]

ClearSync(p) ==
  /\ call[p].pc = "idle"
  /\ IF native
     THEN \E keys \in Orderings(DOMAIN store) :
            /\ store' = [k \in DOMAIN store \ ToSet(keys) |-> store[k]]
            /\ call' = Joined(p, [call EXCEPT ![p] =
                 [Called(p) EXCEPT !.pc = "done", !.op = "clearSync",
                                   !.keys = [keys |-> keys],
                                   !.log = <<Op("allKeys", Undefined)>>
                                             \o [i \in DOMAIN keys |-> Op("remove", keys[i])]]])
     ELSE /\ store' = store
          /\ call' = Joined(p, [call EXCEPT ![p] =
               [Called(p) EXCEPT !.pc = "done", !.op = "clearSync", !.ret = TypeError]])
  /\ lastSet' = Nothing
  /\ UNCHANGED <<native, byRef, pending, now, probe>>

\* the caller takes the result of a finished call
Return(p) ==
  /\ call[p].pc = "done"
  /\ call' = [call EXCEPT ![p] = Idle]
  /\ lastSet' = IF call[p].op = "set" THEN lastSet ELSE Nothing
  /\ UNCHANGED <<native, byRef, store, pending, now, probe>>

Next ==
  \/ Tick
  \/ CompleteRemoval
  \/ \E p \in Procs : GetStart(p)
  \/ \E p \in Procs : Get28(p)
  \/ \E p \in Procs : Get40(p)
  \/ \E p \in Procs : Get49(p)
  \/ \E p \in Procs : Get79(p)
  \/ \E p \in Procs : SetStart(p)
  \/ \E p \in Procs : Set105(p)
  \/ \E p \in Procs : ClearStart(p)
  \/ \E p \in Procs : Clear110(p)
  \/ \E p \in Procs : Clear121(p)
  \/ \E p \in Procs : ClearSync(p)
  \/ \E p \in Procs : Return(p)

Spec == Init /\ [][Next]_vars

----------------------------------------------------------------------------
(* matchExistingCacheKey on its own: key lists drawn from a pool of key     *)
(* strings, each written out next to the fields it was built from           *)

OTHER_PREFIX == <<"other">>

PoolKey(key, prefix, client_id, audience, tokens) ==
  [key |-> key, prefix |-> prefix, client_id |-> client_id, audience |-> audience,
   tokens |-> tokens]

MatchPool ==
  { PoolKey(<<"@@auth0spajs@@", ":", ":", "c1", ":", ":", "x", ":", ":", "a", " ", "b", " ", "c">>,
            CACHE_KEY_PREFIX, <<"c1">>, <<"x">>, {"a", "b", "c"}),
    PoolKey(<<"@@auth0spajs@@", ":", ":", "c1", ":", ":", "x", ":", ":", "d", " ", "a">>,
            CACHE_KEY_PREFIX, <<"c1">>, <<"x">>, {"a", "d"}),
    PoolKey(<<"@@auth0spajs@@", ":", ":", "c1", ":", ":", "x", ":", ":", "b">>,
            CACHE_KEY_PREFIX, <<"c1">>, <<"x">>, {"b"}),
    PoolKey(<<"@@auth0spajs@@", ":", ":", "c2", ":", ":", "x", ":", ":", "a", " ", "b", " ", "c">>,
            CACHE_KEY_PREFIX, <<"c2">>, <<"x">>, {"a", "b", "c"}),
    PoolKey(<<"@@auth0spajs@@", ":", ":", "c1", ":", ":", "y", ":", ":", "a", " ", "b", " ", "c">>,
            CACHE_KEY_PREFIX, <<"c1">>, <<"y">>, {"a", "b", "c"}),
    PoolKey(<<"other", ":", ":", "c1", ":", ":", "x", ":", ":", "a", " ", "b", " ", "c">>,
            OTHER_PREFIX, <<"c1">>, <<"x">>, {"a", "b", "c"}),
    PoolKey(<<"@@auth0spajs@@", ":", ":", "c1", ":", ":", "x", ":", ":">>,
            CACHE_KEY_PREFIX, <<"c1">>, <<"x">>, {}),
    PoolKey(<<"@@auth0spajs@@", ":", ":", "c1", ":", ":", "x">>,
            CACHE_KEY_PREFIX, <<"c1">>, <<"x">>, {}) }

MatchRequests ==
  { [cacheKey |-> CacheKey(<<"c1">>, <<"a", " ", "b">>, <<"x">>), tokens |-> {"a", "b"}],
    [cacheKey |-> CacheKey(<<"c1">>, <<"a", " ", "d">>, <<"x">>), tokens |-> {"a", "d"}],
    [cacheKey |-> CacheKey(<<"c1">>, <<"b">>, <<"x">>), tokens |-> {"b"}] }

MaxKeys == 2

KeyLists ==
  UNION {[1..n -> {d.key : d \in MatchPool}] : n \in 0..MaxKeys}

InitMatch ==
  /\ native = FALSE
  /\ byRef = FALSE
  /\ store = <<>>
  /\ pending = EmptyBag
  /\ now = 0
  /\ call = [p \in {1} |-> Idle]
  /\ lastSet = Nothing
  /\ \E r \in MatchRequests, allKeys \in KeyLists :
       probe = [applied |-> FALSE, keyToMatch |-> r.cacheKey, allKeys |-> allKeys,
                matchedKey |-> Undefined]

ApplyMatch ==
  /\ ~probe.applied
  /\ probe' = [probe EXCEPT !.applied = TRUE,
                 !.matchedKey = matchExistingCacheKey(probe.keyToMatch, probe.allKeys)]
  /\ UNCHANGED <<native, byRef, store, pending, now, call, lastSet>>

NextMatch == ApplyMatch

SpecMatch == InitMatch /\ [][NextMatch]_vars

----------------------------------------------------------------------------
(* Two managers over one backend without allKeys: caller 1 calls into the   *)
(* manager constructed with ClientId, caller OtherCaller into the one       *)
(* constructed with OtherClientId; each passes entries and keys that carry  *)
(* the client id of its manager                                             *)

TwoScopes == {<<"a", " ", "b">>}
TwoRefreshTokens == {Undefined, <<"r1">>}

EntriesOf(clientId) ==
  [client_id : {clientId}, audience : {AUD}, scope : TwoScopes,
   expires_in : ExpiresIns, decodedToken : {[claims |-> [exp |-> e]] : e \in Exps},
   refresh_token : TwoRefreshTokens]

RequestKeysOf(clientId) ==
  {CacheKey(clientId, sc, AUD) : sc \in TwoScopes \cup {<<"a">>}}

InitTwo ==
  /\ native = FALSE
  /\ byRef = FALSE
  /\ store = <<>>
  /\ pending = EmptyBag
  /\ now = 0
  /\ call = [p \in {1, OtherCaller} |-> Idle]
  /\ lastSet = Nothing
  /\ probe = NoProbe

\* the calls are made one at a time; the removals of a clear still land later
OneAtATime(p) == \A q \in Procs \ {p} : call[q].pc = "idle"

NextTwo ==
  \/ Tick
  \/ CompleteRemoval
  \/ \E p \in Procs : OneAtATime(p) /\ GetCalled(p, RequestKeysOf(ManagerOf(p)),
                                                  {DEFAULT_EXPIRY_ADJUSTMENT_SECONDS})
  \/ \E p \in Procs : Get28(p)
  \/ \E p \in Procs : Get40(p)
  \/ \E p \in Procs : Get49(p)
  \/ \E p \in Procs : Get79(p)
  \/ \E p \in Procs : OneAtATime(p) /\ SetCalled(p, EntriesOf(ManagerOf(p)))
  \/ \E p \in Procs : Set105(p)
  \/ \E p \in Procs : OneAtATime(p) /\ ClearStart(p)
  \/ \E p \in Procs : Clear110(p)
  \/ \E p \in Procs : Clear121(p)
  \/ \E p \in Procs : Return(p)

SpecTwo == InitTwo /\ [][NextTwo]_vars

----------------------------------------------------------------------------

(* CacheKey.toKey and CacheKey.fromKey on their own: keys drawn from pools  *)
(* of field values, among them values with colons in them                   *)

KeyPrefixes == {CACHE_KEY_PREFIX, <<"p">>, <<"p", ":">>}
KeyClientIds == {<<"c1">>, <<"c", ":">>, <<"c", ":", ":", "d">>}
KeyAudiences == {<<>>, <<"x">>, <<"https", ":", "//x">>, <<"x", ":", ":", "y">>}
KeyScopes == {<<>>, <<"a">>, <<"a", " ", "b">>, <<":", "a">>, <<"a", ":", ":", "b">>}

\* the string handed to fromKey: the serialized key, or the serialized key
\* without its last delimiter and scope
KeyToParse(k, scopeSegment) ==
  IF scopeSegment THEN toKey(k)
  ELSE k.prefix \o DELIM \o k.client_id \o DELIM \o k.audience

InitKey ==
  /\ native = FALSE
  /\ byRef = FALSE
  /\ store = <<>>
  /\ pending = EmptyBag
  /\ now = 0
  /\ call = [p \in {1} |-> Idle]
  /\ lastSet = Nothing
  /\ \E prefix \in KeyPrefixes, client_id \in KeyClientIds, audience \in KeyAudiences,
        scope \in KeyScopes, scopeSegment \in BOOLEAN :
       probe = [applied |-> FALSE,
                cacheKey |-> [prefix |-> prefix, client_id |-> client_id,
                              audience |-> audience, scope |-> scope],
                scopeSegment |-> scopeSegment, key |-> Undefined, parsed |-> Nothing]

ApplyKey ==
  /\ ~probe.applied
  /\ probe' = [probe EXCEPT !.applied = TRUE,
                 !.key = KeyToParse(probe.cacheKey, probe.scopeSegment),
                 !.parsed = fromKey(KeyToParse(probe.cacheKey, probe.scopeSegment))]
  /\ UNCHANGED <<native, byRef, store, pending, now, call, lastSet>>

NextKey == ApplyKey

SpecKey == InitKey /\ [][NextKey]_vars

----------------------------------------------------------------------------

(* A get and a set in flight at once on one manager: caller 1 calls get,    *)
(* caller SecondCaller calls set                                            *)

SecondCaller == 2

RaceEntries ==
  [client_id : {ClientId}, audience : {AUD}, scope : StoredScopes,
   expires_in : ExpiresIns, decodedToken : {[claims |-> [exp |-> e]] : e \in Exps},
   refresh_token : {Undefined, <<"r1">>}]

RaceRequestKeys == {CacheKey(ClientId, <<"a">>, AUD)}

InitGetSet ==
  /\ native \in BOOLEAN
  /\ byRef = FALSE
  /\ store = <<>>
  /\ pending = EmptyBag
  /\ now = 0
  /\ call = [p \in {1, SecondCaller} |-> Idle]
  /\ lastSet = Nothing
  /\ probe = NoProbe

NextGetSet ==
  \/ Tick
  \/ GetCalled(1, RaceRequestKeys, Adjustments)
  \/ Get28(1)
  \/ Get40(1)
  \/ Get49(1)
  \/ Get79(1)
  \/ SetCalled(SecondCaller, RaceEntries)
  \/ Set105(SecondCaller)
  \/ \E p \in Procs : Return(p)

SpecGetSet == InitGetSet /\ [][NextGetSet]_vars

----------------------------------------------------------------------------

(* A set and a clear in flight at once on one manager without native        *)
(* allKeys: caller 1 calls clear, caller SecondCaller calls set             *)

InitSetClear ==
  /\ native = FALSE
  /\ byRef = FALSE
  /\ store = <<>>
  /\ pending = EmptyBag
  /\ now = 0
  /\ call = [p \in {1, SecondCaller} |-> Idle]
  /\ lastSet = Nothing
  /\ probe = NoProbe

NextSetClear ==
  \/ CompleteRemoval
  \/ SetCalled(SecondCaller, RaceEntries)
  \/ Set105(SecondCaller)
  \/ ClearStart(1)
  \/ Clear110(1)
  \/ Clear121(1)
  \/ \E p \in Procs : Return(p)

SpecSetClear == InitSetClear /\ [][NextSetClear]_vars

----------------------------------------------------------------------------

(* The claims *)

\* the key string of a client id, an audience and a scope, written out
KeyString(client_id, audience, scope) ==
  <<"@@auth0spajs@@", ":", ":">> \o client_id \o <<":", ":">> \o audience
    \o <<":", ":">> \o scope

RefreshOnly(body) == body # Nothing /\ DOMAIN body = {"refresh_token"}

GetDone(p) == call[p].op = "get" /\ call[p].pc = "done"

\* an expired record was found by the get of caller p
FoundExpired(p) ==
  /\ call[p].found # Nothing
  /\ call[p].found.expiresAt - call[p].expiryAdjustmentSeconds < call[p].nowSeconds

\* C1: a get that found a record with expiresAt - expiryAdjustmentSeconds < now
\* returns nothing or a body holding only refresh_token, never the whole
\* stored body of the expired record.
C1_ExpiredNeverServedWhole ==
  \A p \in Procs :
    (GetDone(p) /\ FoundExpired(p))
      => (call[p].ret = Nothing \/ RefreshOnly(call[p].ret))

\* a get found a whole entry that is expired only because of the adjustment,
\* and returned its refresh token alone
C1_Witness ==
  \E p \in Procs :
    /\ GetDone(p) /\ FoundExpired(p)
    /\ call[p].found.expiresAt >= call[p].nowSeconds
    /\ ~RefreshOnly(call[p].found.body)
    /\ RefreshOnly(call[p].ret)

C3_SetStoresMinExpiry ==
  [][\A p \in Procs :
       (call[p].pc = "idle" /\ call'[p].op = "set") =>
         LET e == call'[p].entry
             k == KeyString(e.client_id, e.audience, e.scope)
             exp == e.decodedToken.claims.exp
         IN /\ k \in DOMAIN store'
            /\ store'[k].body = e
            /\ store'[k].expiresAt =
                 (IF now + e.expires_in <= exp THEN now + e.expires_in ELSE exp)
            /\ store'[k].expiresAt <= now + e.expires_in
            /\ store'[k].expiresAt <= exp]_vars

\* a set has stored an entry whose claims.exp is earlier than now + expires_in
C3_Witness ==
  \E p \in Procs :
    /\ call[p].op = "set"
    /\ call[p].pc = "done"
    /\ call[p].entry.decodedToken.claims.exp < call[p].nowSeconds + call[p].entry.expires_in
    /\ KeyString(ClientId, AUD, call[p].entry.scope) \in DOMAIN store
    /\ store[KeyString(ClientId, AUD, call[p].entry.scope)].expiresAt
         = call[p].entry.decodedToken.claims.exp

\* what the pool records about a key string, and about a requested key
PoolEntry(key) == CHOOSE d \in MatchPool : d.key = key
RequestedTokens(cacheKey) == (CHOOSE r \in MatchRequests : r.cacheKey = cacheKey).tokens

\* the key qualifies for the request: the fixed prefix, the requested client
\* id and audience, a non-empty scope holding every requested token
Qualifies(key, cacheKey) ==
  LET d == PoolEntry(key)
  IN /\ d.prefix = <<"@@auth0spajs@@">>
     /\ d.client_id = cacheKey.client_id
     /\ d.audience = cacheKey.audience
     /\ d.tokens # {}
     /\ RequestedTokens(cacheKey) \subseteq d.tokens

\* C4: the matched key is the first enumerated key that qualifies, and is
\* undefined when no enumerated key qualifies.
C4_FirstQualifyingKey ==
  probe.applied =>
    LET hits == {i \in DOMAIN probe.allKeys : Qualifies(probe.allKeys[i], probe.keyToMatch)}
    IN IF hits = {}
       THEN probe.matchedKey = <<"?undefined">>
       ELSE \E i \in hits :
              /\ \A j \in hits : i <= j
              /\ probe.matchedKey = probe.allKeys[i]

\* a request for "a b" over a list whose first key has another audience and
\* whose second is the stored "a b c" is matched to the second
C4_Witness ==
  /\ probe.applied
  /\ probe.keyToMatch.scope = <<"a", " ", "b">>
  /\ Len(probe.allKeys) = 2
  /\ PoolEntry(probe.allKeys[1]).audience = <<"y">>
  /\ PoolEntry(probe.allKeys[2]).tokens = {"a", "b", "c"}
  /\ probe.matchedKey = probe.allKeys[2]

\* caller p's get completes in this step, having found an expired record
GetCompletesExpired(p) ==
  /\ call[p].pc # "done"
  /\ call'[p].pc = "done"
  /\ call'[p].op = "get"
  /\ call'[p].found # Nothing
  /\ call'[p].found.expiresAt - call'[p].expiryAdjustmentSeconds < call'[p].nowSeconds

RequestedKeyString(c) ==
  KeyString(c.cacheKey.client_id, c.cacheKey.audience, c.cacheKey.scope)

\* what C5 and its amendment say of the step that completes such a get
NarrowedInBackend(p) ==
  LET c == call'[p]
      r == c.found.body.refresh_token
      k == RequestedKeyString(c)
  IN /\ c.ret = [refresh_token |-> r]
     /\ k \in DOMAIN store'
     /\ store'[k] = [body |-> [refresh_token |-> r], expiresAt |-> c.found.expiresAt]
     /\ DOMAIN store \subseteq DOMAIN store'
     /\ ManifestGet(store', ClientId) = ManifestGet(store, ClientId)

\* C5 as stated: a get that found an expired record whose body carries a
\* refresh_token r returns {refresh_token: r} and leaves, under the requested
\* key, that body with the found expiresAt; nothing is deleted and the
\* manifest is as it was.
C5_AsStated ==
  [][\A p \in Procs :
       (GetCompletesExpired(p) /\ call'[p].found.body.refresh_token # <<"?undefined">>)
         => NarrowedInBackend(p)]_vars

\* C5, amended: the same for a refresh_token that is not the empty string.
C5_NonEmptyTokenNarrowed ==
  [][\A p \in Procs :
       (/\ GetCompletesExpired(p)
        /\ call'[p].found.body.refresh_token # <<"?undefined">>
        /\ call'[p].found.body.refresh_token # <<>>)
         => NarrowedInBackend(p)]_vars

\* a get found, by a stored key with a larger scope, an expired whole entry
\* with a refresh token, and the narrowed record is under the requested key
C5_Witness ==
  \E p \in Procs :
    /\ GetDone(p) /\ FoundExpired(p)
    /\ ~native
    /\ call[p].foundKey # RequestedKeyString(call[p])
    /\ ~RefreshOnly(call[p].found.body)
    /\ call[p].ret = [refresh_token |-> <<"r1">>]
    /\ RequestedKeyString(call[p]) \in DOMAIN store
    /\ store[RequestedKeyString(call[p])].body = [refresh_token |-> <<"r1">>]
    /\ call[p].foundKey \in DOMAIN store
    /\ call[p].foundKey \in ToSet(ManifestKeys(store, ClientId))

\* C6: a get that found (by exact key or by match) an expired record without
\* a refresh_token returns nothing, and when it completes the backend no
\* longer holds the found entry's key and the manifest no longer lists it.
C6_ExpiredWithoutTokenPurged ==
  [][\A p \in Procs :
       (GetCompletesExpired(p) /\ call'[p].found.body.refresh_token = <<"?undefined">>)
         => /\ call'[p].ret = Nothing
            /\ call'[p].foundKey \notin DOMAIN store'
            /\ call'[p].foundKey \notin ToSet(ManifestKeys(store', ClientId))]_vars

\* C7: without native allKeys, once clear() has resolved and every removal
\* issued has completed, the backend holds no cache entry and no manifest
\* record.
C7_ClearEmptiesBackend ==
  (/\ ~native
   /\ pending = EmptyBag
   /\ \E p \in Procs : call[p].op = "clear" /\ call[p].pc = "done")
    => DOMAIN store = {}

\* C8: without native allKeys, a set leaves the manifest as it was while it
\* writes the entry, and when it completes the manifest's keys are the keys
\* before plus the entry's key, each listed once.
C8_SetAddsItsKey ==
  [][~native =>
       \A p \in Procs :
         /\ (call[p].pc = "idle" /\ call'[p].op = "set")
              => ManifestGet(store', ClientId) = ManifestGet(store, ClientId)
         /\ (call[p].pc # "done" /\ call'[p].pc = "done" /\ call'[p].op = "set")
              => LET e == call'[p].entry
                     k == KeyString(e.client_id, e.audience, e.scope)
                 IN /\ ToSet(ManifestKeys(store', ClientId))
                      = ToSet(ManifestKeys(store, ClientId)) \cup {k}
                    /\ Len(ManifestKeys(store', ClientId))
                      = Cardinality(ToSet(ManifestKeys(store', ClientId)))]_vars

\* a set of "a" has completed, with the key of "a b" still tracked beside it
C8_Witness ==
  \E p \in Procs :
    /\ ~native
    /\ call[p].op = "set" /\ call[p].pc = "done"
    /\ call[p].entry.scope = <<"a">>
    /\ ToSet(ManifestKeys(store, ClientId)) =
         {KeyString(ClientId, AUD, <<"a">>), KeyString(ClientId, AUD, <<"a", " ", "b">>)}

\* C9: a get that misses returns nothing, and no step of it changes the
\* backend or the manifest; it has issued reads only.
C9_MissChangesNothing ==
  /\ [](\A p \in Procs :
          (GetDone(p) /\ call[p].found = Nothing)
            => /\ call[p].ret = Nothing
               /\ \A i \in DOMAIN call[p].log :
                    call[p].log[i].op \in {"get", "allKeys", "manifest.get"})
  /\ [][\A p \in Procs :
          (call'[p].op = "get" /\ call'[p].found = Nothing /\ call'[p] # call[p])
            => store' = store]_vars

\* the third miss: a key matched, and the backend has no record under it
C9_Witness ==
  \E p \in Procs :
    /\ GetDone(p)
    /\ call[p].found = Nothing
    /\ call[p].matchedKey # <<"?undefined">>
    /\ call[p].matchedKey \notin DOMAIN store
    /\ call[p].ret = Nothing

\* the first miss: no record under the exact key, and no keys to enumerate
C9_MissNoKeys ==
  \E p \in Procs : GetDone(p) /\ call[p].keys = Nothing /\ call[p].ret = Nothing

\* the second miss: keys were enumerated, and none matches
C9_MissNoMatch ==
  \E p \in Procs :
    /\ GetDone(p)
    /\ call[p].keys # Nothing
    /\ call[p].keys.keys # <<>>
    /\ call[p].matchedKey = <<"?undefined">>
    /\ call[p].ret = Nothing

\* C10: in clear(), when the manifest clear is issued a removal has been
\* issued for every enumerated key, and the manifest clear can go ahead
\* whatever removals are outstanding.
C10_RemovalsIssuedNotAwaited ==
  \A p \in Procs :
    call[p].op = "clear" =>
      /\ \A i \in DOMAIN call[p].log :
           call[p].log[i].op = "manifest.clear" =>
             \A k \in ToSet(call[p].keys.keys) :
               \E j \in 1..(i - 1) : call[p].log[j] = [op |-> "remove", key |-> k]
      /\ call[p].pc = "clear121" => ENABLED Clear121(p)

\* clear() has resolved, the manifest record is gone, and a removal it
\* issued is still outstanding, its record still in the backend
C10_Witness ==
  \E p \in Procs :
    /\ call[p].op = "clear" /\ call[p].pc = "done"
    /\ \E i \in DOMAIN call[p].log : call[p].log[i].op = "manifest.clear"
    /\ ManifestKey(ClientId) \notin DOMAIN store
    /\ \E k \in ToSet(call[p].keys.keys) : k \in BagToSet(pending) /\ k \in DOMAIN store

\* C11: on a backend with allKeys of its own the manager keeps no manifest:
\* no manifest record is ever in the backend, no call reads, writes or removes
\* one, every key list a call works on is the backend's own, and a set is one
\* write, of the wrapped entry under the derived key, and nothing else.
C11_NativeNeverTouchesManifest ==
  /\ [](native =>
         /\ ManifestKey(ClientId) \notin DOMAIN store
         /\ \A p \in Procs :
              /\ \A i \in DOMAIN call[p].log :
                   /\ call[p].log[i].op \in {"get", "set", "remove", "allKeys"}
                   /\ call[p].log[i].key # ManifestKey(ClientId)
              /\ call[p].op = "set" =>
                   /\ call[p].pc = "done"
                   /\ call[p].log = <<Op("set", KeyString(call[p].entry.client_id,
                                                         call[p].entry.audience,
                                                         call[p].entry.scope))>>)
  /\ [][native =>
         \A p \in Procs :
           /\ (call'[p].keys # Nothing /\ call'[p].keys # call[p].keys) =>
                /\ ToSet(call'[p].keys.keys) = DOMAIN store
                /\ Len(call'[p].keys.keys) = Cardinality(DOMAIN store)
           /\ (call'[p].op = "set" /\ call[p].op # "set") =>
                LET k == KeyString(call'[p].entry.client_id, call'[p].entry.audience,
                                   call'[p].entry.scope)
                IN /\ DOMAIN store' = DOMAIN store \cup {k}
                   /\ store'[k] = call'[p].wrappedEntry
                   /\ \A j \in DOMAIN store \ {k} : store'[j] = store[j]]_vars

\* a clearSync on such a backend has enumerated and removed the records of earlier sets
C11_Witness ==
  \E p \in Procs :
    /\ native
    /\ call[p].op = "clearSync"
    /\ call[p].pc = "done"
    /\ Len(call[p].keys.keys) >= 2
    /\ store = <<>>

\* the key strings that carry a client id: its cache keys and its manifest key
BelongsTo(key, clientId) ==
  /\ Len(key) >= 4
  /\ SubSeq(key, 1, 4) = <<"@@auth0spajs@@", ":", ":">> \o clientId

\* the client id caller p uses, and the one the other caller uses
OwnId(p) == IF p = 1 THEN <<"c1">> ELSE <<"c2">>
OtherId(p) == IF p = 1 THEN <<"c2">> ELSE <<"c1">>

\* C12: with two managers of different client ids over one backend without
\* allKeys, each used with its own client id only, every write and removal a
\* call issues is on a key of its own manager, and no step of a call of one
\* manager changes the other's manifest record or any record under a key
\* of the other.
C12_ManagersDoNotCollide ==
  /\ [](\A p \in Procs :
          \A i \in DOMAIN call[p].log :
            call[p].log[i].op \in {"set", "remove"}
              => /\ BelongsTo(call[p].log[i].key, OwnId(p))
                 /\ ~BelongsTo(call[p].log[i].key, OtherId(p)))
  /\ [][\A p \in Procs :
          call'[p] # call[p] =>
            /\ ManifestGet(store', OtherId(p)) = ManifestGet(store, OtherId(p))
            /\ \A k \in DOMAIN store :
                 BelongsTo(k, OtherId(p)) => k \in DOMAIN store' /\ store'[k] = store[k]]_vars

\* the clear of the first manager, all its removals done, has left the entry
\* and the manifest record of the second
C12_Witness ==
  /\ call[1].op = "clear"
  /\ call[1].pc = "done"
  /\ call[1].keys # Nothing
  /\ Len(call[1].keys.keys) >= 1
  /\ pending = EmptyBag
  /\ ~(\E k \in DOMAIN store : BelongsTo(k, <<"c1">>))
  /\ KeyString(<<"c2">>, <<"x">>, <<"a", " ", "b">>) \in DOMAIN store
  /\ ManifestKeys(store, <<"c2">>) = <<KeyString(<<"c2">>, <<"x">>, <<"a", " ", "b">>)>>

\* string d occurs in string s
Contains(s, d) ==
  \E i \in 1..(Len(s) - Len(d) + 1) : SubSeq(s, i, i + Len(d) - 1) = d

EndsWithColon(s) == s # <<>> /\ s[Len(s)] = ":"

\* the parsed key has an empty scope and the other three fields of the key
ParsedWithEmptyScope ==
  probe.parsed = [probe.cacheKey EXCEPT !.scope = <<>>]

\* C13 as stated: whenever the scope has no colon in it, the serialized key
\* parses back to the same four fields, and a string without a scope segment,
\* or with an empty one, parses to an empty scope.
C13_AsStated ==
  (probe.applied /\ ~Contains(probe.cacheKey.scope, <<":">>)) =>
     IF probe.scopeSegment
     THEN probe.parsed = probe.cacheKey
     ELSE ParsedWithEmptyScope

\* C13: whenever none of the four fields has "::" in it and none of prefix,
\* client_id and audience ends in a colon, the serialized key parses back to
\* the same four fields, and the key without its scope segment, or with an
\* empty scope, parses to the other three fields and an empty scope.
C13_RoundTripWithoutDelimiters ==
  (/\ probe.applied
   /\ \A f \in {"prefix", "client_id", "audience", "scope"} :
        ~Contains(probe.cacheKey[f], <<":", ":">>)
   /\ \A f \in {"prefix", "client_id", "audience"} : ~EndsWithColon(probe.cacheKey[f]))
    => /\ probe.scopeSegment => probe.parsed = probe.cacheKey
       /\ (~probe.scopeSegment \/ probe.cacheKey.scope = <<>>) => ParsedWithEmptyScope

\* a key with a URL audience and a two-token scope has made the round trip
C13_Witness ==
  /\ probe.applied
  /\ probe.scopeSegment
  /\ probe.cacheKey = [prefix |-> <<"@@auth0spajs@@">>, client_id |-> <<"c1">>,
                       audience |-> <<"https", ":", "//x">>, scope |-> <<"a", " ", "b">>]
  /\ probe.key = <<"@@auth0spajs@@", ":", ":", "c1", ":", ":", "https", ":", "//x",
                   ":", ":", "a", " ", "b">>
  /\ probe.parsed = probe.cacheKey

\* C14: without native allKeys, whenever no call is in flight and no removal
\* is outstanding, the records in the backend other than the manifest record
\* are exactly the records under the keys the manifest lists.
C14_ManifestConsistent ==
  (/\ ~native
   /\ pending = EmptyBag
   /\ \A p \in Procs : call[p].pc = "idle")
    => /\ DOMAIN store \ {ManifestKey(ClientId)} \subseteq ToSet(ManifestKeys(store, ClientId))
       /\ ToSet(ManifestKeys(store, ClientId)) \subseteq DOMAIN store

\* the two halves of C14 on their own
C14_EveryRecordListed ==
  (/\ ~native
   /\ pending = EmptyBag
   /\ \A p \in Procs : call[p].pc = "idle")
    => DOMAIN store \ {ManifestKey(ClientId)} \subseteq ToSet(ManifestKeys(store, ClientId))

C14_EveryListedKeyResolves ==
  (/\ ~native
   /\ pending = EmptyBag
   /\ \A p \in Procs : call[p].pc = "idle")
    => ToSet(ManifestKeys(store, ClientId)) \subseteq DOMAIN store

\* C15: when a get completes by narrowing an expired whole entry to its
\* refresh token, no record under the requested key or under the key the
\* entry was found by still has the body that was found.
C15_StaleBodyDiscarded ==
  [][\A p \in Procs :
       (/\ GetCompletesExpired(p)
        /\ call'[p].found.body.refresh_token \notin {<<"?undefined">>, <<>>}
        /\ ~RefreshOnly(call'[p].found.body))
         => \A k \in {RequestedKeyString(call'[p]), call'[p].foundKey} :
              k \in DOMAIN store' => store'[k].body # call'[p].found.body]_vars

\* C15 for a backend that hands out the stored object itself
C15_StaleBodyDiscardedByReference ==
  [][\A p \in Procs :
       (/\ byRef
        /\ GetCompletesExpired(p)
        /\ call'[p].found.body.refresh_token \notin {<<"?undefined">>, <<>>}
        /\ ~RefreshOnly(call'[p].found.body))
         => \A k \in {RequestedKeyString(call'[p]), call'[p].foundKey} :
              k \in DOMAIN store' => store'[k].body # call'[p].found.body]_vars

\* the tokens of a scope string
ScopeTokens(scope) == {scope[i] : i \in DOMAIN scope} \ {" "}

\* the key strings that satisfy the request of call c: fixed prefix, the
\* requested client_id and audience, a scope with every requested token
QualifyingKeys(c) ==
  {KeyString(c.cacheKey.client_id, c.cacheKey.audience, scope) :
     scope \in {s \in {<<"a">>, <<"b">>, <<"a", " ", "b">>} :
                  ScopeTokens(c.cacheKey.scope) \subseteq ScopeTokens(s)}}

\* the keys the manager can enumerate
EnumerableKeys ==
  IF native THEN DOMAIN store ELSE ToSet(ManifestKeys(store, ClientId)) \cap DOMAIN store

\* the records that are usable for the request of call c at this moment
UsableKeys(c) ==
  {k \in QualifyingKeys(c) \cap EnumerableKeys :
     store[k].expiresAt - c.expiryAdjustmentSeconds >= now}

\* the step in which the get of caller p settles on its result
GetDecides(p) ==
  /\ call[p].op = "get"
  /\ call[p].pc \in {"get28", "get40", "get49"}
  /\ call'[p].pc \in {"done", "get79"}

\* C16 as stated: whenever some enumerable record is usable for the request
\* when get settles on its result, the result is the body of a usable record.
C16_AsStated ==
  [][\A p \in Procs :
       (GetDecides(p) /\ UsableKeys(call[p]) # {})
         => \E k \in UsableKeys(call[p]) : call'[p].ret = store[k].body]_vars

\* the first key of a list that is in a set, or undefined
RECURSIVE FirstIn(_, _)
FirstIn(keys, S) ==
  IF keys = <<>> THEN <<"?undefined">>
  ELSE IF Head(keys) \in S THEN Head(keys) ELSE FirstIn(Tail(keys), S)

\* C16: get reads the exact requested key and, only when no record is under
\* it, the first key in enumeration order that satisfies the request; when the
\* record read this way is not expired get returns its body, and it looks at
\* no other record.
C16_FirstRecordDecides ==
  [][\A p \in Procs :
       /\ (call[p].pc = "idle" /\ call'[p].op = "get") =>
            LET k == RequestedKeyString(call'[p])
            IN call'[p].wrappedEntry = IF k \in DOMAIN store THEN store[k] ELSE Nothing
       /\ (call[p].pc = "get40" /\ call'[p].pc = "get49") =>
            LET k == FirstIn(call[p].keys.keys, QualifyingKeys(call[p]))
            IN /\ call[p].wrappedEntry = Nothing
               /\ call'[p].wrappedEntry = IF k \in DOMAIN store THEN store[k] ELSE Nothing
       /\ (/\ GetDecides(p)
           /\ call[p].wrappedEntry # Nothing
           /\ call[p].wrappedEntry.expiresAt - call[p].expiryAdjustmentSeconds >= now)
            => /\ call'[p].pc = "done"
               /\ call'[p].ret = call[p].wrappedEntry.body
       /\ (GetDecides(p) /\ call[p].wrappedEntry = Nothing) => call'[p].ret = Nothing]_vars

\* a get has returned the whole body of an unexpired record it found under
\* the first listed key with a larger scope, a second such key being listed
C16_Witness ==
  \E p \in Procs :
    /\ GetDone(p)
    /\ call[p].keys # Nothing
    /\ Len(call[p].keys.keys) >= 2
    /\ call[p].found # Nothing
    /\ call[p].foundKey = call[p].keys.keys[1]
    /\ call[p].foundKey # RequestedKeyString(call[p])
    /\ call[p].found.expiresAt - call[p].expiryAdjustmentSeconds >= call[p].nowSeconds
    /\ ~RefreshOnly(call[p].found.body)
    /\ call[p].ret = call[p].found.body

\* C17: a get that finds a record with expiresAt - expiryAdjustmentSeconds >=
\* now (line 60's reading of the clock) completes in that step with the body
\* it read, has issued nothing but reads, and no step of it has changed the
\* backend, the manifest record in it included, or issued a removal.
C17_UnexpiredFindChangesNothing ==
  [][\A p \in Procs :
       /\ (/\ GetDecides(p)
           /\ call'[p].found # Nothing
           /\ call'[p].found.expiresAt - call'[p].expiryAdjustmentSeconds >= now)
            => /\ call'[p].pc = "done"
               /\ call'[p].ret = call'[p].found.body
               /\ call'[p].found = call[p].wrappedEntry
               /\ store' = store
               /\ pending' = pending
               /\ \A i \in DOMAIN call'[p].log :
                    call'[p].log[i].op \in {"get", "allKeys", "manifest.get"}
       /\ (/\ call'[p].op = "get"
           /\ call'[p] # call[p]
           /\ call'[p].pc \in {"get28", "get40", "get49"})
            => store' = store /\ pending' = pending]_vars

\* a get has returned the whole body of a record found at the very second
\* its adjusted expiry is reached, and the record is in the backend as it was
C17_Witness ==
  \E p \in Procs :
    /\ GetDone(p)
    /\ call[p].found # Nothing
    /\ call[p].nowSeconds > 0
    /\ call[p].found.expiresAt - call[p].expiryAdjustmentSeconds = call[p].nowSeconds
    /\ ~RefreshOnly(call[p].found.body)
    /\ call[p].ret = call[p].found.body
    /\ call[p].foundKey \in DOMAIN store
    /\ store[call[p].foundKey] = call[p].found

\* the get of caller p holds an expired record it read under its exact key,
\* and the set of caller q has since written, under the same key, an entry
\* that is not expired for that get
ReadExpiredThenSetFresh(p, q) ==
  /\ call[p].op = "get"
  /\ call[p].pc = "get28"
  /\ call[p].wrappedEntry # Nothing
  /\ call[p].wrappedEntry.expiresAt - call[p].expiryAdjustmentSeconds < now
  /\ call[q].op = "set"
  /\ RequestedKeyString(call[q]) = RequestedKeyString(call[p])
  /\ RequestedKeyString(call[q]) \in DOMAIN store
  /\ store[RequestedKeyString(call[q])] = call[q].wrappedEntry
  /\ call[q].wrappedEntry.expiresAt - call[p].expiryAdjustmentSeconds >= now

\* C18: when a get has read an expired record under key k and a set has then
\* written a fresh entry under k, the next step of the get takes the fresh
\* entry out of the backend: after it, k has no record or the refresh-token-only
\* remnant of the old record.
C18_GetAfterSetLosesFreshEntry ==
  [][\A p, q \in Procs :
       (ReadExpiredThenSetFresh(p, q) /\ call'[p].pc # call[p].pc)
         => LET k == RequestedKeyString(call[p])
                old == call[p].wrappedEntry
            IN \/ k \notin DOMAIN store'
               \/ /\ old.body.refresh_token \notin {<<"?undefined">>, <<>>}
                  /\ store'[k] = [body |-> [refresh_token |-> old.body.refresh_token],
                                  expiresAt |-> old.expiresAt]]_vars

\* both calls have completed, the set wrote a fresh entry under the key whose
\* expired record the get had read, and the backend holds the remnant
C18_Witness ==
  /\ GetDone(1)
  /\ call[2].op = "set" /\ call[2].pc = "done"
  /\ RequestedKeyString(call[1]) = RequestedKeyString(call[2])
  /\ call[1].found # Nothing
  /\ call[1].foundKey = RequestedKeyString(call[1])
  /\ call[1].found.expiresAt - call[1].expiryAdjustmentSeconds < call[1].nowSeconds
  /\ call[1].found # call[2].wrappedEntry
  /\ call[2].wrappedEntry.expiresAt - call[1].expiryAdjustmentSeconds >= now
  /\ call[2].nowSeconds <= call[1].nowSeconds
  /\ RequestedKeyString(call[1]) \in DOMAIN store
  /\ store[RequestedKeyString(call[1])] =
       [body |-> [refresh_token |-> <<"r1">>], expiresAt |-> call[1].found.expiresAt]

\* the same with the fresh entry removed: the old record had no refresh token
C18_WitnessRemoved ==
  /\ GetDone(1)
  /\ call[2].op = "set" /\ call[2].pc = "done"
  /\ RequestedKeyString(call[1]) = RequestedKeyString(call[2])
  /\ call[1].found # Nothing
  /\ call[1].foundKey = RequestedKeyString(call[1])
  /\ call[1].found.expiresAt - call[1].expiryAdjustmentSeconds < call[1].nowSeconds
  /\ call[1].found # call[2].wrappedEntry
  /\ call[2].wrappedEntry.expiresAt - call[1].expiryAdjustmentSeconds >= now
  /\ RequestedKeyString(call[1]) \notin DOMAIN store

\* a set of caller 2 and a clear of caller 1 have both completed, and so has
\* every removal
SetAndClearCompleted ==
  /\ ~native
  /\ call[1].op = "clear" /\ call[1].pc = "done"
  /\ call[2].op = "set" /\ call[2].pc = "done"
  /\ pending = EmptyBag

\* the entry's record is in the backend exactly when the manifest lists its key
RecordIffListed ==
  RequestedKeyString(call[2]) \in DOMAIN store
    <=> RequestedKeyString(call[2]) \in ToSet(ManifestKeys(store, <<"c1">>))

\* C19 as stated: when the set and the clear were in flight together, then
\* once both and every removal have completed the entry's record is in the
\* backend exactly when the manifest lists its key.
C19_AsStated ==
  (SetAndClearCompleted /\ (~call[1].alone \/ ~call[2].alone)) => RecordIffListed

\* C19: the same for a set and a clear made one after the other, the set
\* called with no removal outstanding.
C19_SequentialSetAndClear ==
  (SetAndClearCompleted /\ call[1].alone /\ call[2].alone /\ call[2].settled)
    => RecordIffListed

\* a set made after a clear that removed the record of its key: record and
\* listing are both there
C19_Witness ==
  /\ SetAndClearCompleted
  /\ call[1].alone /\ call[2].alone /\ call[2].settled
  /\ call[1].keys # Nothing
  /\ RequestedKeyString(call[2]) \in ToSet(call[1].keys.keys)
  /\ RequestedKeyString(call[2]) \in DOMAIN store
  /\ RequestedKeyString(call[2]) \in ToSet(ManifestKeys(store, <<"c1">>))

\* a clear made after a set: neither the record nor the listing is left
C19_WitnessCleared ==
  /\ SetAndClearCompleted
  /\ call[1].alone /\ call[2].alone /\ call[2].settled
  /\ call[1].keys # Nothing
  /\ RequestedKeyString(call[2]) \in ToSet(call[1].keys.keys)
  /\ RequestedKeyString(call[2]) \notin DOMAIN store
  /\ ManifestGet(store, <<"c1">>) = Nothing

============================================================================
